---- MODULE Spec2Model ----
(***************************************************************************)
(* A model of the HTTP server of this repository (its last revision, the   *)
(* one with the five routes): the request parser, the router, the          *)
(* handlers, the response serialisation and the connection handler.        *)
(*                                                                         *)
(* Text is a sequence of Unicode code points, a buffer is a sequence of    *)
(* bytes (0..255).  The conversions between the two (Buffer.toString,      *)
(* socket.write of a string, Buffer.byteLength, decodeURIComponent) are    *)
(* computed, not assumed.  A JavaScript value that may be undefined is a   *)
(* sequence of length 0 (undefined) or 1 (the value).                      *)
(***************************************************************************)
EXTENDS Integers, Sequences, FiniteSets

VARIABLES
    up,             \* the server process is running
    directoryPath,  \* the --directory argument: <<>> (undefined) or <<dir>>
    files,          \* the storage directory: file name -> bytes
    pc,             \* per connection: idle, reading, writing, done, rejected
    req,            \* per connection: the buffer its data event delivered
    sockLog,        \* per connection: the socket calls made, in order
    hres,           \* per connection: the handler result given to generateResponse
    fsCalls,        \* per connection: [reads, writes] calls of readFile / writeFile
    fsOutcome,      \* per connection: how its file-system call settled
    expect,         \* per connection: the POST body a GET is entitled to read back
    posted          \* file name and body of each POST answered 201 and not overwritten

vars == <<up, directoryPath, files, pc, req, sockLog, hres, fsCalls, fsOutcome,
          expect, posted>>

(***************************************************************************)
(* Bounds of the model.                                                    *)
(***************************************************************************)
\* connections open at the same time
MaxConns == 2
\* length of the strings drawn for the echo message and the User-Agent value
MaxLen == 2

(***************************************************************************)
(* Sequences.                                                              *)
(***************************************************************************)
Some(x) == <<x>>
Undefined == <<>>

\* arr[i] of a JavaScript array: undefined past the end
Nth(arr, i) == IF i <= Len(arr) THEN <<arr[i]>> ELSE <<>>

StartsWith(s, p) == Len(s) >= Len(p) /\ SubSeq(s, 1, Len(p)) = p

DropPrefix(s, p) == SubSeq(s, Len(p) + 1, Len(s))

RECURSIVE IndexOf(_, _, _)
\* the first index >= i at which sep occurs in s, 0 when there is none
IndexOf(s, sep, i) ==
    IF i + Len(sep) - 1 > Len(s) THEN 0
    ELSE IF SubSeq(s, i, i + Len(sep) - 1) = sep THEN i
    ELSE IndexOf(s, sep, i + 1)

RECURSIVE Split(_, _)
\* String.prototype.split(sep), sep a non-empty string: every occurrence splits
Split(s, sep) ==
    LET i == IndexOf(s, sep, 1)
    IN  IF i = 0 THEN <<s>>
        ELSE <<SubSeq(s, 1, i - 1)>> \o Split(SubSeq(s, i + Len(sep), Len(s)), sep)

RECURSIVE Concat(_)
\* Array.prototype.join("") of an array of strings
Concat(ss) == IF ss = <<>> THEN <<>> ELSE Head(ss) \o Concat(Tail(ss))

(***************************************************************************)
(* UTF-8.                                                                  *)
(***************************************************************************)
InRange(b, i, lo, hi) == i <= Len(b) /\ b[i] >= lo /\ b[i] <= hi

RECURSIVE DecodeFrom(_, _)
\* Buffer.prototype.toString("utf8") from byte i: an ill-formed sequence
\* becomes U+FFFD (65533) and decoding resumes after its maximal subpart
DecodeFrom(b, i) ==
    IF i > Len(b) THEN <<>>
    ELSE LET x == b[i] IN
      IF x < 128 THEN <<x>> \o DecodeFrom(b, i + 1)
      ELSE IF x >= 194 /\ x <= 223 THEN
        IF InRange(b, i + 1, 128, 191)
        THEN <<(x - 192) * 64 + (b[i + 1] - 128)>> \o DecodeFrom(b, i + 2)
        ELSE <<65533>> \o DecodeFrom(b, i + 1)
      ELSE IF x >= 224 /\ x <= 239 THEN
        LET lo == IF x = 224 THEN 160 ELSE 128
            hi == IF x = 237 THEN 159 ELSE 191
        IN  IF ~InRange(b, i + 1, lo, hi) THEN <<65533>> \o DecodeFrom(b, i + 1)
            ELSE IF ~InRange(b, i + 2, 128, 191) THEN <<65533>> \o DecodeFrom(b, i + 2)
            ELSE <<(x - 224) * 4096 + (b[i + 1] - 128) * 64 + (b[i + 2] - 128)>>
                 \o DecodeFrom(b, i + 3)
      ELSE IF x >= 240 /\ x <= 244 THEN
        LET lo == IF x = 240 THEN 144 ELSE 128
            hi == IF x = 244 THEN 143 ELSE 191
        IN  IF ~InRange(b, i + 1, lo, hi) THEN <<65533>> \o DecodeFrom(b, i + 1)
            ELSE IF ~InRange(b, i + 2, 128, 191) THEN <<65533>> \o DecodeFrom(b, i + 2)
            ELSE IF ~InRange(b, i + 3, 128, 191) THEN <<65533>> \o DecodeFrom(b, i + 3)
            ELSE <<(x - 240) * 262144 + (b[i + 1] - 128) * 4096
                   + (b[i + 2] - 128) * 64 + (b[i + 3] - 128)>>
                 \o DecodeFrom(b, i + 4)
      ELSE <<65533>> \o DecodeFrom(b, i + 1)

\* data.toString(), and the string a Buffer becomes inside Array.prototype.join
BufferToString(b) == DecodeFrom(b, 1)

\* the UTF-8 bytes of one code point
EncodeCodePoint(cp) ==
    IF cp < 128 THEN <<cp>>
    ELSE IF cp < 2048 THEN <<192 + (cp \div 64), 128 + (cp % 64)>>
    ELSE IF cp < 65536
      THEN <<224 + (cp \div 4096), 128 + ((cp \div 64) % 64), 128 + (cp % 64)>>
    ELSE <<240 + (cp \div 262144), 128 + ((cp \div 4096) % 64),
           128 + ((cp \div 64) % 64), 128 + (cp % 64)>>

RECURSIVE StringToBuffer(_)
\* the bytes socket.write(string) and writeFile(path, string) put out
StringToBuffer(s) ==
    IF s = <<>> THEN <<>> ELSE EncodeCodePoint(Head(s)) \o StringToBuffer(Tail(s))

\* Buffer.byteLength(string)
ByteLength(s) == Len(StringToBuffer(s))

RECURSIVE NumberToString(_)
\* `${n}` of a non-negative integer
NumberToString(n) ==
    IF n < 10 THEN <<48 + n>> ELSE NumberToString(n \div 10) \o <<48 + (n % 10)>>

(***************************************************************************)
(* Percent-encoding.                                                       *)
(***************************************************************************)
IsHexDigit(c) ==
    \/ c >= 48 /\ c <= 57
    \/ c >= 65 /\ c <= 70
    \/ c >= 97 /\ c <= 102

HexValue(c) ==
    IF c <= 57 THEN c - 48 ELSE IF c <= 70 THEN c - 55 ELSE c - 87

\* s has "%XX" at i
HasEscape(s, i) ==
    /\ i + 2 <= Len(s)
    /\ s[i] = 37
    /\ IsHexDigit(s[i + 1])
    /\ IsHexDigit(s[i + 2])

EscapeValue(s, i) == HexValue(s[i + 1]) * 16 + HexValue(s[i + 2])

\* the number of bytes of the UTF-8 sequence that byte x leads, 0 when x leads none
SequenceLength(x) ==
    IF x < 128 THEN 1
    ELSE IF x >= 192 /\ x <= 223 THEN 2
    ELSE IF x >= 224 /\ x <= 239 THEN 3
    ELSE IF x >= 240 /\ x <= 247 THEN 4
    ELSE 0

RECURSIVE DecodeURIFrom(_, _)
\* decodeURIComponent from index i: [ok, value]; ok = FALSE is URIError
DecodeURIFrom(s, i) ==
    IF i > Len(s) THEN [ok |-> TRUE, value |-> <<>>]
    ELSE IF s[i] # 37 THEN
        LET rest == DecodeURIFrom(s, i + 1)
        IN  [ok |-> rest.ok, value |-> <<s[i]>> \o rest.value]
    ELSE IF ~HasEscape(s, i) THEN [ok |-> FALSE, value |-> <<>>]
    ELSE
        LET n == SequenceLength(EscapeValue(s, i))
            octets == [k \in 1..n |-> IF HasEscape(s, i + 3 * (k - 1))
                                      THEN EscapeValue(s, i + 3 * (k - 1))
                                      ELSE 0]
            text == BufferToString(octets)
        IN  IF \/ n = 0
               \/ \E k \in 1..n : ~HasEscape(s, i + 3 * (k - 1))
               \/ Len(text) # 1
               \/ StringToBuffer(text) # octets
            THEN [ok |-> FALSE, value |-> <<>>]
            ELSE LET rest == DecodeURIFrom(s, i + 3 * n)
                 IN  [ok |-> rest.ok, value |-> text \o rest.value]

decodeURIComponent(s) == DecodeURIFrom(s, 1)

(***************************************************************************)
(* The program's constants (as code points).                               *)
(***************************************************************************)
\* " "
SP == <<32>>
\* "\r\n"
CRLF == <<13,10>>
\* "\r\n\r\n"
BLANK_LINE == CRLF \o CRLF
\* ": "
HEADER_SEPARATOR == <<58,32>>
\* "GET"
HTTP_METHOD_GET == <<71,69,84>>
\* "POST"
HTTP_METHOD_POST == <<80,79,83,84>>
\* "/"
PATH_ROOT == <<47>>
\* "/echo/", the prefix the regular expression /^\/echo\// matches
PATH_ECHO == <<47,101,99,104,111,47>>
\* "/user-agent"
PATH_USER_AGENT == <<47,117,115,101,114,45,97,103,101,110,116>>
\* "/files/", the prefix the regular expression /^\/files\// matches
PATH_FILES == <<47,102,105,108,101,115,47>>
\* "User-Agent"
HEADER_USER_AGENT == <<85,115,101,114,45,65,103,101,110,116>>
\* "Content-Type"
HEADER_CONTENT_TYPE == <<67,111,110,116,101,110,116,45,84,121,112,101>>
\* "Content-Length"
HEADER_CONTENT_LENGTH == <<67,111,110,116,101,110,116,45,76,101,110,103,116,104>>
\* "text/plain"
CONTENT_TYPE_TEXT == <<116,101,120,116,47,112,108,97,105,110>>
\* "application/octet-stream"
CONTENT_TYPE_FILE == <<97,112,112,108,105,99,97,116,105,111,110,47,111,99,116,101,116,45,115,116,114,101,97,109>>

HTTP_STATUS == {"OK", "CREATED", "NOT_FOUND", "INTERNAL_SERVER_ERROR"}

RESPONSE_START_LINE(httpStatus) ==
    CASE httpStatus = "OK" ->
           \* "HTTP/1.1 200 OK\r\n"
           <<72,84,84,80,47,49,46,49,32,50,48,48,32,79,75,13,10>>
      [] httpStatus = "CREATED" ->
           \* "HTTP/1.1 201 Created\r\n"
           <<72,84,84,80,47,49,46,49,32,50,48,49,32,67,114,101,97,116,101,100,13,10>>
      [] httpStatus = "NOT_FOUND" ->
           \* "HTTP/1.1 404 Not Found\r\n"
           <<72,84,84,80,47,49,46,49,32,52,48,52,32,78,111,116,32,70,111,117,110,100,13,10>>
      [] httpStatus = "INTERNAL_SERVER_ERROR" ->
           \* "HTTP/1.1 500 Internal Server Error\r\n"
           <<72,84,84,80,47,49,46,49,32,53,48,48,32,73,110,116,101,114,110,97,108,32,83,101,114,118,101,114,32,69,114,114,111,114,13,10>>

(***************************************************************************)
(* JavaScript values of more than one type: a header value is a string or  *)
(* a number, a body is a string or a Buffer.                               *)
(***************************************************************************)
String(s) == [type |-> "string", val |-> s]
Number(n) == [type |-> "number", val |-> n]
Buffer(b) == [type |-> "buffer", val |-> b]

\* the string a value becomes in a template literal or in Array.prototype.join
ToString(v) ==
    CASE v.type = "string" -> v.val
      [] v.type = "number" -> NumberToString(v.val)
      [] v.type = "buffer" -> BufferToString(v.val)

(***************************************************************************)
(* parseRequestData.                                                       *)
(***************************************************************************)
parseRequestData(data) ==
    LET request == BufferToString(data)
        parts == Split(request, BLANK_LINE)
        head == parts[1]
        body == Nth(parts, 2)
        lines == Split(head, CRLF)
        startLine == lines[1]
        rawHeaders == Tail(lines)
        tokens == Split(startLine, SP)
    IN  [ httpMethod  |-> Nth(tokens, 1),
          target      |-> Nth(tokens, 2),
          httpVersion |-> Nth(tokens, 3),
          headers     |-> [i \in 1..Len(rawHeaders) |->
                              Split(rawHeaders[i], HEADER_SEPARATOR)],
          body        |-> body ]

(***************************************************************************)
(* Response generation.  generateResponse returns the response string;     *)
(* the parameters it was given are kept beside it (result) for the         *)
(* properties that speak of the handler's result.                          *)
(***************************************************************************)
generateHeader(key, value) ==
    key \o HEADER_SEPARATOR \o ToString(value) \o CRLF

generateResponse(params) ==
    LET startLine == RESPONSE_START_LINE(params.httpStatus)
        responseHeaders == [i \in 1..Len(params.headers) |->
                               generateHeader(params.headers[i][1], params.headers[i][2])]
        emptyLine == CRLF
    IN  [ result   |-> params,
          response |-> startLine \o Concat(responseHeaders) \o emptyLine
                       \o ToString(params.body) ]

\* what a handler does: return a response, or throw
Return(out) == [kind |-> "return", out |-> <<out>>]
Throw == [kind |-> "throw", out |-> <<>>]
\* getResponse goes on in an async handler that awaits the file system
Await(handler) == [kind |-> handler, out |-> <<>>]

getRootResponse(httpRequest) ==
    generateResponse([httpStatus |-> "OK", headers |-> <<>>, body |-> String(<<>>)])

getNotFoundResponse(httpRequest) ==
    generateResponse([httpStatus |-> "NOT_FOUND", headers |-> <<>>, body |-> String(<<>>)])

getInternalServerErrorResponse(httpRequest) ==
    generateResponse([httpStatus |-> "INTERNAL_SERVER_ERROR", headers |-> <<>>,
                      body |-> String(<<>>)])

\* getEchoResponse without decodeURIComponent
getEchoResponseUndecoded(httpRequest) ==
    LET body == DropPrefix(httpRequest.target[1], PATH_ECHO)
    IN  Return(generateResponse(
            [httpStatus |-> "OK",
             headers |-> << <<HEADER_CONTENT_TYPE, String(CONTENT_TYPE_TEXT)>>,
                            <<HEADER_CONTENT_LENGTH, Number(ByteLength(body))>> >>,
             body |-> String(body)]))

\* target is a string here: getResponse has matched it against PATH.ECHO
getEchoResponse(httpRequest) ==
    LET target == httpRequest.target[1]
        message == DropPrefix(target, PATH_ECHO)
        decoded == decodeURIComponent(message)
        body == decoded.value
        bodyLength == ByteLength(body)
        headers == << <<HEADER_CONTENT_TYPE, String(CONTENT_TYPE_TEXT)>>,
                      <<HEADER_CONTENT_LENGTH, Number(bodyLength)>> >>
    IN  IF ~decoded.ok THEN Throw   \* URIError
        ELSE Return(generateResponse(
                 [httpStatus |-> "OK", headers |-> headers, body |-> String(body)]))

\* headers.find(([key]) => key === HEADER.USER_AGENT): undefined when none matches
FindHeader(headers, name) ==
    LET hits == {i \in 1..Len(headers) : headers[i][1] = name}
    IN  IF hits = {} THEN Undefined
        ELSE Some(headers[CHOOSE i \in hits : \A j \in hits : i <= j])

getUserAgentResponse(httpRequest) ==
    LET found == FindHeader(httpRequest.headers, HEADER_USER_AGENT)
        second == IF found = Undefined THEN Undefined ELSE Nth(found[1], 2)
        userAgent == IF second = Undefined THEN <<>> ELSE second[1]
        body == userAgent
        bodyLength == ByteLength(body)
        responseHeaders == << <<HEADER_CONTENT_TYPE, String(CONTENT_TYPE_TEXT)>>,
                              <<HEADER_CONTENT_LENGTH, Number(bodyLength)>> >>
    IN  IF found = Undefined THEN Throw   \* TypeError: undefined is not iterable
        ELSE Return(generateResponse(
                 [httpStatus |-> "OK", headers |-> responseHeaders,
                  body |-> String(body)]))

\* target.replace(PATH.FILES, ""), target matching PATH.FILES
filename(httpRequest) == DropPrefix(httpRequest.target[1], PATH_FILES)

\* getFile after readFile has settled: .catch(() => null)
getFile(settled) == IF settled.ok THEN Some(settled.data) ELSE Undefined

\* getFilesResponse without the check for null: a missing file is an empty one
getFilesResponseUnchecked(httpRequest, file) ==
    LET body == IF file = Undefined THEN <<>> ELSE file[1]
    IN  generateResponse(
            [httpStatus |-> "OK",
             headers |-> << <<HEADER_CONTENT_TYPE, String(CONTENT_TYPE_FILE)>>,
                            <<HEADER_CONTENT_LENGTH, Number(Len(body))>> >>,
             body |-> Buffer(body)])

\* getFilesResponse once getFile has resolved to file (a Buffer, or null)
getFilesResponse(httpRequest, file) ==
    IF file = Undefined THEN getNotFoundResponse(httpRequest)
    ELSE LET body == file[1]
             bodyLength == Len(body)
             responseHeaders == << <<HEADER_CONTENT_TYPE, String(CONTENT_TYPE_FILE)>>,
                                   <<HEADER_CONTENT_LENGTH, Number(bodyLength)>> >>
         IN  generateResponse([httpStatus |-> "OK", headers |-> responseHeaders,
                               body |-> Buffer(body)])

\* saveFile with a catch block that falls through to return true
saveFileAlwaysTrue(thrown) == TRUE

\* saveFile after its try block has run: thrown is what join or writeFile threw
saveFile(thrown) == ~thrown

\* getSaveFilesResponse once saveFile has resolved to isSaved
getSaveFilesResponse(httpRequest, isSaved) ==
    IF ~isSaved THEN getInternalServerErrorResponse(httpRequest)
    ELSE generateResponse([httpStatus |-> "CREATED", headers |-> <<>>,
                           body |-> String(<<>>)])

\* getResponse with GET /files/ handed to the handler that saves
getResponseSavingOnGet(data) ==
    LET httpRequest == parseRequestData(data)
        target == httpRequest.target
        httpMethod == httpRequest.httpMethod
        isGet == httpMethod = Some(HTTP_METHOD_GET)
        isPost == httpMethod = Some(HTTP_METHOD_POST)
    IN  IF isGet /\ target = Some(PATH_ROOT) THEN Return(getRootResponse(httpRequest))
        ELSE IF isGet /\ target = Undefined THEN Throw
        ELSE IF isGet /\ StartsWith(target[1], PATH_ECHO) THEN getEchoResponse(httpRequest)
        ELSE IF isGet /\ target = Some(PATH_USER_AGENT)
             THEN getUserAgentResponse(httpRequest)
        ELSE IF isGet /\ StartsWith(target[1], PATH_FILES)
             THEN Await("getSaveFilesResponse")
        ELSE IF isPost /\ target = Undefined THEN Throw
        ELSE IF isPost /\ StartsWith(target[1], PATH_FILES)
             THEN Await("getSaveFilesResponse")
        ELSE Return(getNotFoundResponse(httpRequest))

\* target.match(re) on an undefined target throws TypeError
getResponse(data) ==
    LET httpRequest == parseRequestData(data)
        target == httpRequest.target
        httpMethod == httpRequest.httpMethod
        isGet == httpMethod = Some(HTTP_METHOD_GET)
        isPost == httpMethod = Some(HTTP_METHOD_POST)
    IN  IF isGet /\ target = Some(PATH_ROOT) THEN Return(getRootResponse(httpRequest))
        ELSE IF isGet /\ target = Undefined THEN Throw
        ELSE IF isGet /\ StartsWith(target[1], PATH_ECHO) THEN getEchoResponse(httpRequest)
        ELSE IF isGet /\ target = Some(PATH_USER_AGENT)
             THEN getUserAgentResponse(httpRequest)
        ELSE IF isGet /\ StartsWith(target[1], PATH_FILES) THEN Await("getFilesResponse")
        ELSE IF isPost /\ target = Undefined THEN Throw
        ELSE IF isPost /\ StartsWith(target[1], PATH_FILES)
             THEN Await("getSaveFilesResponse")
        ELSE Return(getNotFoundResponse(httpRequest))

(***************************************************************************)
(* The requests the transport delivers.  A request is the buffer of one    *)
(* data event.                                                             *)
(***************************************************************************)
\* "HTTP/1.1"
HTTP_VERSION == <<72,84,84,80,47,49,46,49>>
\* "PUT"
METHOD_PUT == <<80,85,84>>
\* "Host: localhost"
HOST_LINE == <<72,111,115,116,58,32,108,111,99,97,108,104,111,115,116>>

RECURSIVE HeaderLines(_)
HeaderLines(lines) ==
    IF lines = <<>> THEN <<>> ELSE Head(lines) \o CRLF \o HeaderLines(Tail(lines))

\* METHOD SP TARGET SP VERSION CRLF (header CRLF)* CRLF body
Request(method, target, lines, body) ==
    method \o SP \o target \o SP \o HTTP_VERSION \o CRLF
    \o HeaderLines(lines) \o CRLF \o body

\* every sequence over alphabet of length at most n
RECURSIVE StringsUpTo(_, _)
StringsUpTo(alphabet, n) ==
    IF n = 0 THEN {<<>>}
    ELSE LET shorter == StringsUpTo(alphabet, n - 1)
         IN  shorter \cup {s \o <<x>> : s \in shorter, x \in alphabet}

\* the file names the requests use: "f", "bin", and "" (the directory itself)
FILE_F == <<102>>
FILE_BIN == <<98,105,110>>

\* the requests of the file routes, and one request of each other outcome
FileRequests ==
    { Request(HTTP_METHOD_GET, PATH_FILES \o FILE_F, <<>>, <<>>),
      Request(HTTP_METHOD_GET, PATH_FILES \o FILE_BIN, <<HOST_LINE>>, <<>>),
      Request(HTTP_METHOD_GET, PATH_FILES, <<>>, <<>>),
      \* body "hi"
      Request(HTTP_METHOD_POST, PATH_FILES \o FILE_F, <<HOST_LINE>>, <<104,105>>),
      \* body "a\r\n\r\nb"
      Request(HTTP_METHOD_POST, PATH_FILES \o FILE_F, <<>>, <<97,13,10,13,10,98>>),
      \* "POST /files/f HTTP/1.1", no blank line
      HTTP_METHOD_POST \o SP \o PATH_FILES \o FILE_F \o SP \o HTTP_VERSION,
      \* body "hi" to the directory itself
      Request(HTTP_METHOD_POST, PATH_FILES, <<>>, <<104,105>>),
      Request(HTTP_METHOD_GET, PATH_ROOT, <<>>, <<>>),
      \* "/nope"
      Request(HTTP_METHOD_GET, <<47,110,111,112,101>>, <<>>, <<>>),
      \* "GET\r\n\r\n"
      HTTP_METHOD_GET \o BLANK_LINE,
      \* "/echo/a%20"
      Request(HTTP_METHOD_GET, PATH_ECHO \o <<97,37,50,48>>, <<>>, <<>>),
      \* "User-Agent: x"
      Request(HTTP_METHOD_GET, PATH_USER_AGENT,
              <<HEADER_USER_AGENT \o HEADER_SEPARATOR \o <<120>> >>, <<>>) }

\* encodeURIComponent leaves A-Z a-z 0-9 - _ . ! ~ * ' ( ) as they are
IsUnreserved(cp) ==
    \/ cp >= 65 /\ cp <= 90
    \/ cp >= 97 /\ cp <= 122
    \/ cp >= 48 /\ cp <= 57
    \/ cp \in {45, 95, 46, 33, 126, 42, 39, 40, 41}

HexDigit(v) == IF v < 10 THEN 48 + v ELSE 55 + v

RECURSIVE EscapeBytes(_)
\* "%XX" for each byte
EscapeBytes(bytes) ==
    IF bytes = <<>> THEN <<>>
    ELSE <<37, HexDigit(Head(bytes) \div 16), HexDigit(Head(bytes) % 16)>>
         \o EscapeBytes(Tail(bytes))

RECURSIVE encodeURIComponent(_)
\* the percent-encoding a client applies to the echo message
encodeURIComponent(s) ==
    IF s = <<>> THEN <<>>
    ELSE (IF IsUnreserved(Head(s)) THEN <<Head(s)>>
          ELSE EscapeBytes(EncodeCodePoint(Head(s))))
         \o encodeURIComponent(Tail(s))

\* printable ASCII drawn for the echo message: "a", " ", "%", "/"
EchoAlphabet == {97, 32, 37, 47}
EchoStrings == StringsUpTo(EchoAlphabet, MaxLen)

EchoRequest(s) ==
    Request(HTTP_METHOD_GET, PATH_ECHO \o encodeURIComponent(s), <<HOST_LINE>>, <<>>)

\* echo targets that are no output of encodeURIComponent
RawEchoRequests ==
    { \* "/echo/%": URIError
      Request(HTTP_METHOD_GET, PATH_ECHO \o <<37>>, <<>>, <<>>),
      \* "/echo/%FF": URIError
      Request(HTTP_METHOD_GET, PATH_ECHO \o <<37,70,70>>, <<>>, <<>>),
      \* "/echo/%c3%a9": U+00E9, two bytes
      Request(HTTP_METHOD_GET, PATH_ECHO \o <<37,99,51,37,97,57>>, <<>>, <<>>) }

\* characters drawn for the User-Agent value: "a", ":", " ", U+00E9
UserAgentAlphabet == {97, 58, 32, 233}
UserAgentValues == StringsUpTo(UserAgentAlphabet, MaxLen)

UserAgentLine(x) == StringToBuffer(HEADER_USER_AGENT \o HEADER_SEPARATOR \o x)

\* GET /user-agent whose first header named User-Agent is "User-Agent: x":
\* after a Host header, or before a second User-Agent header ("User-Agent: b")
UserAgentRequests(x) ==
    { Request(HTTP_METHOD_GET, PATH_USER_AGENT, <<HOST_LINE, UserAgentLine(x)>>, <<>>),
      Request(HTTP_METHOD_GET, PATH_USER_AGENT,
              <<UserAgentLine(x), UserAgentLine(<<98>>)>>, <<>>) }

\* GET /user-agent with no header named User-Agent
NoUserAgentRequests ==
    { Request(HTTP_METHOD_GET, PATH_USER_AGENT, <<>>, <<>>),
      Request(HTTP_METHOD_GET, PATH_USER_AGENT, <<HOST_LINE>>, <<>>),
      \* "user-agent: x"
      Request(HTTP_METHOD_GET, PATH_USER_AGENT,
              << <<117,115,101,114,45,97,103,101,110,116,58,32,120>> >>, <<>>) }

\* methods and targets around the five routes
SomeMethods == {HTTP_METHOD_GET, HTTP_METHOD_POST, METHOD_PUT, <<>>}
SomeTargets ==
    { PATH_ROOT, PATH_USER_AGENT, PATH_FILES \o FILE_F, <<>>,
      \* "/nope"
      <<47,110,111,112,101>>,
      \* "/echo"
      <<47,101,99,104,111>>,
      \* "/files"
      <<47,102,105,108,101,115>>,
      \* "/user-agent/"
      <<47,117,115,101,114,45,97,103,101,110,116,47>> }

\* start lines of three tokens, of two (method and target) and of one
RouteRequests ==
    {Request(m, t, <<UserAgentLine(<<97>>)>>, <<104,105>>) :
        m \in SomeMethods, t \in SomeTargets}
    \cup {m \o SP \o t \o BLANK_LINE : m \in SomeMethods, t \in SomeTargets}
    \cup {m \o BLANK_LINE : m \in SomeMethods}

ParseRequests ==
    {EchoRequest(s) : s \in EchoStrings}
    \cup RawEchoRequests
    \cup UNION {UserAgentRequests(x) : x \in UserAgentValues}
    \cup NoUserAgentRequests
    \cup RouteRequests

AllRequests == FileRequests \cup ParseRequests

\* what the parser and the router make of each request the model draws,
\* computed once
Parsed == [data \in AllRequests |-> parseRequestData(data)]
Routed == [data \in AllRequests |-> getResponse(data)]

(***************************************************************************)
(* The file system, as readFile and writeFile see it.  join(directoryPath, *)
(* "") is the directory itself, which is neither read nor written as a     *)
(* file.  The names drawn hold no "/" and no "." segment, so join joins    *)
(* and does not normalise.                                                 *)
(***************************************************************************)
IsFilePath(name) == name # <<>>

\* how readFile(path) may settle: with the file's bytes, or rejected
ReadOutcomes(name) ==
    {[ok |-> FALSE, data |-> <<>>]}
    \cup IF IsFilePath(name) /\ name \in DOMAIN files
         THEN {[ok |-> TRUE, data |-> files[name]]}
         ELSE {}

\* how writeFile(path, content) may settle: [thrown, stored], stored the
\* file's bytes afterwards (<<>> of length 0: the file is as it was).
\* An undefined content is refused before the file is opened; a write
\* that fails may have truncated the file already.
WriteOutcomes(name, content) ==
    {[thrown |-> TRUE, stored |-> <<>>]}
    \cup IF IsFilePath(name) /\ content # Undefined
         THEN { [thrown |-> FALSE, stored |-> <<StringToBuffer(content[1])>>],
                [thrown |-> TRUE, stored |-> << <<>> >>] }
         ELSE {}

Store(name, stored) ==
    IF stored = <<>> THEN files
    ELSE [n \in DOMAIN files \cup {name} |-> IF n = name THEN stored[1] ELSE files[n]]

(***************************************************************************)
(* The connection handler.                                                 *)
(***************************************************************************)
Conns == 1..MaxConns

\* socket.write(response); socket.end();
onData(response) ==
    << [call |-> "write", data |-> StringToBuffer(response)],
       [call |-> "end", data |-> <<>>] >>

\* the bytes after the first blank line of a request buffer
RawBody(data) ==
    LET i == IndexOf(data, BLANK_LINE, 1)
    IN  IF i = 0 THEN <<>> ELSE SubSeq(data, i + Len(BLANK_LINE), Len(data))

NoCalls == [reads |-> 0, writes |-> 0]

Init ==
    /\ up = TRUE
    /\ \E dir \in {Undefined, Some("/tmp/data")} :
         /\ directoryPath = dir
         \* the directory is empty, or holds "bin" with the bytes 68 FF
         /\ files \in {<<>>} \cup
               (IF dir = Undefined THEN {} ELSE {[n \in {FILE_BIN} |-> <<104,255>>]})
    /\ pc = [c \in Conns |-> "idle"]
    /\ req = [c \in Conns |-> <<>>]
    /\ sockLog = [c \in Conns |-> <<>>]
    /\ hres = [c \in Conns |-> <<>>]
    /\ fsCalls = [c \in Conns |-> NoCalls]
    /\ fsOutcome = [c \in Conns |-> "none"]
    /\ expect = [c \in Conns |-> <<>>]
    /\ posted = {}

\* the awaited getResponse has resolved to out: the response is written and
\* the socket ended
Respond(c, out) ==
    /\ pc' = [pc EXCEPT ![c] = "done"]
    /\ sockLog' = [sockLog EXCEPT ![c] = sockLog[c] \o onData(out.response)]
    /\ hres' = [hres EXCEPT ![c] = Some(out.result)]

\* the awaited getResponse has rejected: nothing is written; the rejection
\* is unhandled, which ends the process or only warns, by the runtime
Reject(c) ==
    /\ pc' = [pc EXCEPT ![c] = "rejected"]
    /\ up' \in BOOLEAN
    /\ UNCHANGED <<sockLog, hres>>

\* socket.on("data"), up to the first await that leaves the event loop
Data(c, data) ==
    /\ up
    /\ pc[c] = "idle"
    /\ req' = [req EXCEPT ![c] = data]
    /\ LET step == Routed[data]
           httpRequest == Parsed[data]
       IN  CASE step.kind = "return" ->
                  /\ Respond(c, step.out[1])
                  /\ UNCHANGED <<up, fsCalls, expect>>
             [] step.kind = "throw" ->
                  /\ Reject(c)
                  /\ UNCHANGED <<fsCalls, expect>>
             [] step.kind = "getFilesResponse" ->
                  \* getFile: join(directoryPath, filename) throws on undefined
                  IF directoryPath = Undefined
                  THEN Reject(c) /\ UNCHANGED <<fsCalls, expect>>
                  ELSE /\ pc' = [pc EXCEPT ![c] = "reading"]
                       /\ fsCalls' = [fsCalls EXCEPT ![c].reads = @ + 1]
                       /\ expect' = [expect EXCEPT ![c] =
                             LET name == filename(httpRequest)
                                 known == {p \in posted : p.name = name}
                             IN  IF known = {} THEN <<>>
                                 ELSE <<(CHOOSE p \in known : TRUE).body>>]
                       /\ UNCHANGED <<up, sockLog, hres>>
             [] step.kind = "getSaveFilesResponse" ->
                  \* saveFile: join throws inside the try block
                  IF directoryPath = Undefined
                  THEN /\ Respond(c, getSaveFilesResponse(httpRequest, saveFile(TRUE)))
                       /\ UNCHANGED <<up, fsCalls, expect>>
                  ELSE /\ pc' = [pc EXCEPT ![c] = "writing"]
                       /\ fsCalls' = [fsCalls EXCEPT ![c].writes = @ + 1]
                       /\ UNCHANGED <<up, sockLog, hres, expect>>
    /\ UNCHANGED <<directoryPath, files, fsOutcome, posted>>

\* readFile settles: getFile resolves, getFilesResponse returns
ReadFileSettles(c) ==
    /\ up
    /\ pc[c] = "reading"
    /\ LET httpRequest == Parsed[req[c]]
       IN  \E settled \in ReadOutcomes(filename(httpRequest)) :
             /\ Respond(c, getFilesResponse(httpRequest, getFile(settled)))
             /\ fsOutcome' = [fsOutcome EXCEPT ![c] =
                                 IF settled.ok THEN "data" ELSE "error"]
    /\ UNCHANGED <<up, directoryPath, files, req, fsCalls, expect, posted>>

\* writeFile settles: saveFile resolves, getSaveFilesResponse returns
WriteFileSettles(c) ==
    /\ up
    /\ pc[c] = "writing"
    /\ LET httpRequest == Parsed[req[c]]
           name == filename(httpRequest)
       IN  \E settled \in WriteOutcomes(name, httpRequest.body) :
             /\ files' = Store(name, settled.stored)
             /\ Respond(c, getSaveFilesResponse(httpRequest, saveFile(settled.thrown)))
             /\ fsOutcome' = [fsOutcome EXCEPT ![c] =
                                 IF settled.thrown THEN "error" ELSE "ok"]
             /\ posted' = {p \in posted : p.name # name}
                          \cup IF settled.thrown THEN {}
                               ELSE {[name |-> name, body |-> RawBody(req[c])]}
             /\ expect' = [k \in Conns |->
                             IF pc[k] = "reading"
                                /\ filename(Parsed[req[k]]) = name
                             THEN <<>> ELSE expect[k]]
    /\ UNCHANGED <<up, directoryPath, req, fsCalls>>

\* socket.on("close"): socket.end() on a closed socket does nothing; the
\* slot is free for the next connection
Close(c) ==
    /\ up
    /\ pc[c] \in {"done", "rejected"}
    /\ pc' = [pc EXCEPT ![c] = "idle"]
    /\ req' = [req EXCEPT ![c] = <<>>]
    /\ sockLog' = [sockLog EXCEPT ![c] = <<>>]
    /\ hres' = [hres EXCEPT ![c] = <<>>]
    /\ fsCalls' = [fsCalls EXCEPT ![c] = NoCalls]
    /\ fsOutcome' = [fsOutcome EXCEPT ![c] = "none"]
    /\ expect' = [expect EXCEPT ![c] = <<>>]
    /\ UNCHANGED <<up, directoryPath, files, posted>>

Next ==
    \E c \in Conns :
        \/ \E data \in FileRequests : Data(c, data)
        \/ ReadFileSettles(c)
        \/ WriteFileSettles(c)
        \/ Close(c)

\* the server with MaxConns connections at a time, on the file requests
Spec == Init /\ [][Next]_vars

NextParse ==
    \/ \E data \in ParseRequests : Data(1, data)
    \/ ReadFileSettles(1)
    \/ WriteFileSettles(1)
    \/ Close(1)

\* the server with one connection at a time, on the requests that exercise
\* the parser, the router and the echo and user-agent handlers
SpecParse == Init /\ [][NextParse]_vars

(***************************************************************************)
(* The properties.  What a property expects of a response is written out   *)
(* here from the wire format, not taken from the handlers.                 *)
(***************************************************************************)
Finished(c) == pc[c] \in {"done", "rejected"}

\* the handler wrote exactly bytes to the socket and then ended it
Answered(c, bytes) ==
    /\ pc[c] = "done"
    /\ sockLog[c] = << [call |-> "write", data |-> bytes],
                       [call |-> "end", data |-> <<>>] >>

\* "HTTP/1.1 404 Not Found\r\n\r\n"
NOT_FOUND_RESPONSE == <<72,84,84,80,47,49,46,49,32,52,48,52,32,78,111,116,32,70,111,117,110,100,13,10,13,10>>
\* "HTTP/1.1 201 Created\r\n\r\n"
CREATED_RESPONSE == <<72,84,84,80,47,49,46,49,32,50,48,49,32,67,114,101,97,116,101,100,13,10,13,10>>
\* "HTTP/1.1 500 Internal Server Error\r\n\r\n"
INTERNAL_SERVER_ERROR_RESPONSE == <<72,84,84,80,47,49,46,49,32,53,48,48,32,73,110,116,101,114,110,97,108,32,83,101,114,118,101,114,32,69,114,114,111,114,13,10,13,10>>

\* "HTTP/1.1 200 OK\r\nContent-Type: text/plain\r\nContent-Length: <n>\r\n\r\n<body>",
\* n the number of bytes of body
TextResponse(bodyBytes) ==
    <<72,84,84,80,47,49,46,49,32,50,48,48,32,79,75,13,10,67,111,110,116,101,110,116,45,84,121,112,101,58,32,116,101,120,116,47,112,108,97,105,110,13,10,67,111,110,116,101,110,116,45,76,101,110,103,116,104,58,32>>
    \o NumberToString(Len(bodyBytes)) \o <<13,10,13,10>> \o bodyBytes

\* "HTTP/1.1 200 OK\r\nContent-Type: application/octet-stream\r\n
\*  Content-Length: <n>\r\n\r\n<body>"
FileResponse(bodyBytes) ==
    <<72,84,84,80,47,49,46,49,32,50,48,48,32,79,75,13,10,67,111,110,116,101,110,116,45,84,121,112,101,58,32,97,112,112,108,105,99,97,116,105,111,110,47,111,99,116,101,116,45,115,116,114,101,97,109,13,10,67,111,110,116,101,110,116,45,76,101,110,103,116,104,58,32>>
    \o NumberToString(Len(bodyBytes)) \o <<13,10,13,10>> \o bodyBytes

HasPrefix(target, prefix) == target # Undefined /\ StartsWith(target[1], prefix)

\* the route of the table that a request's parsed method and target satisfy
\* first, 0 when they satisfy none
Route(data) ==
    LET m == Parsed[data].httpMethod
        t == Parsed[data].target
    IN  IF m = Some(HTTP_METHOD_GET) /\ t = Some(PATH_ROOT) THEN 1
        ELSE IF m = Some(HTTP_METHOD_GET) /\ HasPrefix(t, PATH_ECHO) THEN 2
        ELSE IF m = Some(HTTP_METHOD_GET) /\ t = Some(PATH_USER_AGENT) THEN 3
        ELSE IF m = Some(HTTP_METHOD_GET) /\ HasPrefix(t, PATH_FILES) THEN 4
        ELSE IF m = Some(HTTP_METHOD_POST) /\ HasPrefix(t, PATH_FILES) THEN 5
        ELSE 0

FileNameOf(data) == DropPrefix(Parsed[data].target[1], PATH_FILES)

\* C1: a request whose parsed method and target satisfy none of the five
\* route predicates (a start line of fewer than three tokens included) is
\* answered "HTTP/1.1 404 Not Found\r\n\r\n", and getResponse does not raise.
C1_RouteMissIs404 ==
    \A c \in Conns :
        Finished(c) /\ Route(req[c]) = 0 => Answered(c, NOT_FOUND_RESPONSE)

\* a header list holds no header named exactly User-Agent
NoUserAgentHeader(data) ==
    \A i \in 1..Len(Parsed[data].headers) :
        Parsed[data].headers[i][1] # HEADER_USER_AGENT

\* C2: GET /user-agent with no header named exactly User-Agent is answered
\* 200 OK, Content-Type: text/plain, Content-Length: 0 and an empty body,
\* and no error is raised.
C2_AbsentUserAgentIsEmpty ==
    \A c \in Conns :
        Finished(c) /\ Route(req[c]) = 3 /\ NoUserAgentHeader(req[c])
            => Answered(c, TextResponse(<<>>))

\* C3: once POST /files/f with body B was answered 201 Created and nothing
\* else wrote f, a later GET /files/f (whose read succeeds) is answered 200 OK,
\* Content-Type: application/octet-stream, Content-Length: the byte length
\* of B, and body B.
C3_FileRoundTrip ==
    \A c \in Conns :
        Finished(c) /\ Route(req[c]) = 4 /\ fsOutcome[c] = "data"
                    /\ expect[c] # <<>>
            => Answered(c, FileResponse(expect[c][1]))

\* C4: for every printable-ASCII string s, GET /echo/enc(s) is answered
\* 200 OK, Content-Type: text/plain, Content-Length: the byte length of s,
\* and body s.
C4_EchoRoundTrip ==
    \A c \in Conns : \A s \in EchoStrings :
        Finished(c) /\ req[c] = EchoRequest(s) => Answered(c, TextResponse(s))

\* an echo message that encodeURIComponent changes has come back
C4_Witness ==
    \E c \in Conns : \E s \in EchoStrings :
        /\ Len(s) = MaxLen
        /\ encodeURIComponent(s) # s
        /\ req[c] = EchoRequest(s)
        /\ pc[c] = "done"

C6_SaveOutcomeDecides ==
    \A c \in Conns :
        Finished(c) /\ Route(req[c]) = 5
            => /\ pc[c] = "done"
               /\ fsCalls[c].writes = (IF directoryPath = Undefined THEN 0 ELSE 1)
               /\ Answered(c, CREATED_RESPONSE) <=> fsOutcome[c] = "ok"
               /\ Answered(c, INTERNAL_SERVER_ERROR_RESPONSE) <=> fsOutcome[c] # "ok"
               /\ fsOutcome[c] = "ok"
                  /\ [name |-> FileNameOf(req[c]), body |-> RawBody(req[c])] \in posted
                     => /\ FileNameOf(req[c]) \in DOMAIN files
                        /\ files[FileNameOf(req[c])]
                             = StringToBuffer(Parsed[req[c]].body[1])

\* a POST whose write failed and a POST whose write succeeded have been answered
C6_Witness ==
    /\ \E c \in Conns :
         pc[c] = "done" /\ Route(req[c]) = 5 /\ fsOutcome[c] = "error"
    /\ \E c \in Conns :
         /\ pc[c] = "done" /\ Route(req[c]) = 5 /\ fsOutcome[c] = "ok"
         /\ FileNameOf(req[c]) \in DOMAIN files

\* C7: a connection whose request was delivered and whose handler has run to
\* its end has had exactly one response written to its socket, followed by
\* the end of the connection; no delivered request is left without one.
C7_OneResponseThenEnd ==
    \A c \in Conns :
        Finished(c)
            => /\ Len(sockLog[c]) = 2
               /\ sockLog[c][1].call = "write"
               /\ sockLog[c][2].call = "end"

\* the status lines of the wire protocol
StatusLine(httpStatus) ==
    CASE httpStatus = "OK" ->
           \* "HTTP/1.1 200 OK"
           <<72,84,84,80,47,49,46,49,32,50,48,48,32,79,75>>
      [] httpStatus = "CREATED" ->
           \* "HTTP/1.1 201 Created"
           <<72,84,84,80,47,49,46,49,32,50,48,49,32,67,114,101,97,116,101,100>>
      [] httpStatus = "NOT_FOUND" ->
           \* "HTTP/1.1 404 Not Found"
           <<72,84,84,80,47,49,46,49,32,52,48,52,32,78,111,116,32,70,111,117,110,100>>
      [] httpStatus = "INTERNAL_SERVER_ERROR" ->
           \* "HTTP/1.1 500 Internal Server Error"
           <<72,84,84,80,47,49,46,49,32,53,48,48,32,73,110,116,101,114,110,97,108,32,83,101,114,118,101,114,32,69,114,114,111,114>>

\* the bytes of a header value or of a body
ValueBytes(v) ==
    CASE v.type = "string" -> StringToBuffer(v.val)
      [] v.type = "number" -> NumberToString(v.val)
      [] v.type = "buffer" -> v.val

RECURSIVE HeaderBytes(_)
\* "<name>: <value>\r\n" for each header, in order
HeaderBytes(headers) ==
    IF headers = <<>> THEN <<>>
    ELSE StringToBuffer(Head(headers)[1]) \o <<58,32>> \o ValueBytes(Head(headers)[2])
         \o <<13,10>> \o HeaderBytes(Tail(headers))

\* C8: the bytes written for a handler result (status, headers, body) are
\* the status line of the status, CRLF, each header as "<name>: <value>"
\* CRLF in insertion order, CRLF, and the body with nothing after it; and
\* Content-Type comes before Content-Length.
C8_WireFormat ==
    \A c \in Conns :
        pc[c] = "done"
            => LET result == hres[c][1]
               IN  /\ Len(sockLog[c]) >= 1
                   /\ sockLog[c][1].data
                        = StatusLine(result.httpStatus) \o <<13,10>>
                          \o HeaderBytes(result.headers) \o <<13,10>>
                          \o ValueBytes(result.body)
                   /\ \A i, j \in 1..Len(result.headers) :
                        /\ result.headers[i][1] = HEADER_CONTENT_TYPE
                        /\ result.headers[j][1] = HEADER_CONTENT_LENGTH
                        => i < j

\* C9: GET /user-agent whose first header named exactly User-Agent is
\* "User-Agent: X" is answered 200 OK, Content-Type: text/plain,
\* Content-Length: the byte length of X, and body X, whatever X holds
\* (": " included).
C9_UserAgentPassThrough ==
    \A c \in Conns : \A x \in UserAgentValues :
        Finished(c) /\ req[c] \in UserAgentRequests(x)
            => Answered(c, TextResponse(StringToBuffer(x)))

\* what C10 says of one step of the server
C10_Step ==
    /\ directoryPath' = directoryPath
    /\ files' # files
         => \E c \in Conns :
              /\ pc[c] = "writing" /\ pc'[c] = "done"
              /\ Route(req[c]) = 5
              /\ fsCalls[c].writes = 1
    /\ \A c \in Conns :
         pc'[c] # "idle"
            => LET calls == fsCalls'[c]
                   route == Route(req'[c])
                   called == IF directoryPath = Undefined THEN 0 ELSE 1
               IN  /\ route = 4 => calls = [reads |-> called, writes |-> 0]
                   /\ route = 5 => calls = [reads |-> 0, writes |-> called]
                   /\ route \notin {4, 5} => calls = NoCalls

\* C10: a getResponse invocation calls the file system at most once and
\* never again: readFile once and writeFile never on route 4, writeFile once
\* and readFile never on route 5 (the call is made once the path is joined
\* to the configured directory), neither on the other routes; the stored
\* files change only as a POST /files/ request's write settles, and the
\* storage directory never changes.
C10_OneFileSystemCall == [][C10_Step]_vars

\* a GET /files/ and a POST /files/ request have both been answered, each
\* after its one call, and the POST has stored a file
C10_Witness ==
    \E c, k \in Conns :
        /\ pc[c] = "done" /\ Route(req[c]) = 4
        /\ fsCalls[c] = [reads |-> 1, writes |-> 0]
        /\ pc[k] = "done" /\ Route(req[k]) = 5
        /\ fsCalls[k] = [reads |-> 0, writes |-> 1]
        /\ fsOutcome[k] = "ok"
        /\ FILE_F \in DOMAIN files

====
